---------------------------- MODULE Spec2Model ----------------------------
(***************************************************************************)
(* A model of the McCode VS Code extension (vscode-extension/extension.js):*)
(* the virtual C document cache (McCodeVirtualCProvider), the refresh      *)
(* channel (refreshVirtualC and the push notification handler), the        *)
(* debounced document lifecycle handlers registered by activate, and the   *)
(* server discovery chain (resolveMclspServer, findPython, commandExists,  *)
(* isMclspInstalled, installMclsp).                                        *)
(*                                                                         *)
(* JavaScript strings are modelled as tuples of tokens, so that            *)
(* concatenation, trimming and pattern matching are computed, and JS       *)
(* undefined / null is the one-token tuple Undefined.                      *)
(***************************************************************************)
EXTENDS Integers, Sequences, FiniteSets, Bags, TLC

VARIABLES
  \* ---- McCodeVirtualCProvider --------------------------------------
  cache,        \* this._cache: a Map, here a function whose DOMAIN is the set of keys
  emitted,      \* number of events fired on this._emitter
  lastRead,     \* what the last provideTextDocumentContent call returned
  shadow,       \* ghost: per key, the content of the last update since the last remove
  \* ---- editor state and lifecycle handlers -------------------------
  open,         \* per document: is it open in the editor
  text,         \* per document: doc.getText(), a version number raised by each edit
  opens,        \* ghost: the number of open events so far
  debounceTimer,\* the `let debounceTimer` of activate: the timeout it names, if pending
  timeouts,     \* the timeouts set by setTimeout that are neither cleared nor run yet
  inflight,     \* bag of workspace/executeCommand requests sent and not yet answered
  pushes,       \* ghost: number of push notifications received
  messages,     \* number of messages shown to the user (show*Message calls)
  uncaught,     \* TRUE once a handler has let an exception escape
  ready,        \* TRUE once client.start() has resolved
  \* ---- ghosts of the scheduler claims --------------------------------
  sinceEdit,    \* per document: ms since its last change event (Never, or capped at DebounceMs)
  editText,     \* per document: the text as of its last change event
  burstPulls,   \* per document: debounced pulls issued since its current burst began
  lastPull,     \* per document: the last debounced pull issued for it
  closedSinceEdit, \* per document: it was closed after its last change event
  lastReply,    \* the last answer or notification the refresh channel consumed
  appliedSinceClose, \* per document: an update for its key was applied since it was last closed
  \* ---- activation and server discovery ------------------------------
  pc,           \* where activate / resolveMclspServer / findPython is suspended
  env,          \* the settings and the process environment read by the resolver
  probes,       \* the child processes run so far, in order, with their outcomes
  python,       \* the interpreter findPython returned (Undefined: none)
  server,       \* what resolveMclspServer returned (Undefined: null)
  client,       \* the module-level `let client`
  resolvedPython, \* context.globalState['mclsp.resolvedPython']
  promptChoice, \* the answer to the install prompt (None before it is answered)
  installs,     \* outcomes of the pip install runs of resolveMclspServer, in order
  subscriptions,\* what activate has pushed onto context.subscriptions
  \* ---- commands and deactivation -------------------------------------
  pending,      \* the command invocation that is suspended on an await (Nothing: none)
  outcomes,     \* the command invocations that have ended, in order
  stopped       \* TRUE once client.stop() has been called

cacheVars == <<cache, emitted, lastRead, shadow>>
syncVars == <<open, text, opens, debounceTimer, timeouts, inflight, pushes, ready,
              sinceEdit, editText, burstPulls, lastPull, closedSinceEdit, lastReply, appliedSinceClose>>
resolveVars == <<pc, env, probes, python, server, client, resolvedPython, promptChoice,
                 installs, subscriptions>>
commandVars == <<pending, outcomes, stopped>>
uiVars == <<messages, uncaught>>
vars == <<cacheVars, syncVars, uiVars, resolveVars, commandVars>>

----------------------------------------------------------------------------
(* JavaScript values *)

Undefined == <<"undefined">>
None == <<"none">>
\* "no such record", for the variables that hold records
Nothing == [nothing |-> TRUE]
\* "never", for the variables that hold numbers
Never == 0 - 1
EmptyString == <<>>

\* !x for a string-or-undefined x
Falsy(x) == x = Undefined \/ x = EmptyString

\* a || b
OrElse(a, b) == IF Falsy(a) THEN b ELSE a

\* a ?? b
Coalesce(a, b) == IF a = Undefined THEN b ELSE a

IsSpace(c) == c = " "

RECURSIVE TrimStart(_)
TrimStart(s) == IF s # <<>> /\ IsSpace(Head(s)) THEN TrimStart(Tail(s)) ELSE s

RECURSIVE TrimEnd(_)
TrimEnd(s) ==
  IF s # <<>> /\ IsSpace(s[Len(s)]) THEN TrimEnd(SubSeq(s, 1, Len(s) - 1)) ELSE s

\* String.prototype.trim
Trim(s) == TrimEnd(TrimStart(s))

----------------------------------------------------------------------------
(* McCodeVirtualCProvider *)

Placeholder == <<"/* loading... */">>

MapGet(m, k) == IF k \in DOMAIN m THEN m[k] ELSE Undefined
MapSet(m, k, v) == [x \in DOMAIN m \cup {k} |-> IF x = k THEN v ELSE m[x]]
MapDelete(m, k) == [x \in DOMAIN m \ {k} |-> m[x]]
EmptyMap == [x \in {} |-> Undefined]

\* provideTextDocumentContent(uri), uriString being uri.toString()
ProvideCoalesceBug(uriString) == OrElse(MapGet(cache, uriString), Placeholder)
provideTextDocumentContent(uriString) == Coalesce(MapGet(cache, uriString), Placeholder)

\* update(virtualUriString, content): the cache after the call
UpdateKeepNewest(virtualUriString, content) ==
  IF virtualUriString \in DOMAIN cache /\ Len(content) = 3
     /\ Len(cache[virtualUriString]) = 3 /\ cache[virtualUriString][3] > content[3]
    THEN cache
    ELSE MapSet(cache, virtualUriString, content)
UpdateCache(virtualUriString, content) == MapSet(cache, virtualUriString, content)

\* remove(virtualUriString): the cache after the call
RemoveCache(virtualUriString) == MapDelete(cache, virtualUriString)


----------------------------------------------------------------------------
(* Documents of the editor and their virtual keys *)

\* Three documents: a .instr file in language mode mccode, a .COMP file the
\* editor opened as plain text, and a text file that is no McCode document.
Docs == {"foo", "bar", "notes"}

LanguageId(d) == IF d = "foo" THEN "mccode" ELSE "plaintext"

\* doc.uri.path
UriPath(d) ==
  CASE d = "foo" -> <<"/", "foo", ".", "instr">>
    [] d = "bar" -> <<"/", "bar", ".", "COMP">>
    [] OTHER -> <<"/", "notes", ".", "txt">>

\* doc.uri.toString()
UriString(d) == <<"file://">> \o UriPath(d)

ToLowerCase(t) ==
  CASE t = "COMP" -> "comp"
    [] t = "INSTR" -> "instr"
    [] t = "TXT" -> "txt"
    [] OTHER -> t

\* path.match(/\.(instr|comp)$/i)
MatchesExtension(path) ==
  /\ Len(path) >= 2
  /\ path[Len(path) - 1] = "."
  /\ ToLowerCase(path[Len(path)]) \in {"instr", "comp"}

\* doc.languageId === 'mccode' || doc.uri.path.match(/\.(instr|comp)$/i)
IsMcCode(d) == LanguageId(d) = "mccode" \/ MatchesExtension(UriPath(d))

McCodeDocs == {d \in Docs : IsMcCode(d)}

\* 'mccode-c://' + doc.uri.path + '.c', the key the close handler removes
VirtualUriNoSuffix(d) == <<"mccode-c://">> \o UriPath(d)
VirtualUriOnClose(d) == <<"mccode-c://">> \o UriPath(d) \o <<".c">>

\* The virtualUri the server puts in a getVirtualC result and in a push for
\* document d: <virtual-scheme>://<source-path>.c
ServerVirtualUri(d) == <<"mccode-c://">> \o UriPath(d) \o <<".c">>

\* The content the server derives from version v of document d
ServerContent(d, v) == <<"C", d, v>>

\* A key no document of the editor maps to (a push may carry any virtualUri)
ForeignKey == <<"mccode-c://", "/", "other", ".", "instr", ".c">>

Keys == {ServerVirtualUri(d) : d \in McCodeDocs} \cup {ForeignKey}

----------------------------------------------------------------------------
(* Bounds *)

MaxUpdates == 3   \* update calls in the cache harness
MaxEdits == 2     \* change events
MaxOpens == 2     \* open events
MaxPushes == 1    \* push notifications
MaxInFlight == 2  \* requests awaiting their answer

----------------------------------------------------------------------------
(* The states the variables of the other parts rest in *)

SchedulerIdle ==
  /\ text = [d \in Docs |-> 0]
  /\ opens = 0
  /\ debounceTimer = Nothing
  /\ timeouts = {}
  /\ inflight = EmptyBag
  /\ pushes = 0
  /\ ready = FALSE
  /\ sinceEdit = [d \in Docs |-> Never]
  /\ editText = [d \in Docs |-> Never]
  /\ burstPulls = [d \in Docs |-> 0]
  /\ lastPull = [d \in Docs |-> Nothing]
  /\ closedSinceEdit = [d \in Docs |-> FALSE]
  /\ lastReply = Nothing
  /\ appliedSinceClose = [d \in Docs |-> FALSE]

SyncIdle ==
  /\ open = [d \in Docs |-> FALSE]
  /\ SchedulerIdle

Quiet ==
  /\ messages = 0
  /\ uncaught = FALSE

CacheEmpty ==
  /\ cache = EmptyMap
  /\ emitted = 0
  /\ lastRead = Nothing
  /\ shadow = [k \in Keys |-> None]

ResolveIdle ==
  /\ pc = "idle"
  /\ env = Nothing
  /\ probes = <<>>
  /\ python = Undefined
  /\ server = Nothing
  /\ client = Undefined
  /\ resolvedPython = Undefined
  /\ promptChoice = None
  /\ installs = <<>>
  /\ subscriptions = {}

\* The names under which activate registers with the editor: first the
\* content provider and the two commands, and once the client exists the
\* three document handlers
PassiveRegistrations == {"mccode-c", "mccode.showVirtualC", "mccode.reinstallServer"}
HandlerRegistrations ==
  {"onDidOpenTextDocument", "onDidChangeTextDocument", "onDidCloseTextDocument"}

CommandsIdle ==
  /\ pending = Nothing
  /\ outcomes = <<>>
  /\ stopped = FALSE

----------------------------------------------------------------------------
(* The provider called directly: any sequence of update, remove and read *)

HarnessContents == {EmptyString, <<"x">>, <<"y">>}

ShadowValue(k) == IF shadow[k] = None THEN Placeholder ELSE shadow[k]

\* virtualCProvider.update(k, c): the entry is set and the emitter fires
update(k, c) ==
  /\ cache' = UpdateCache(k, c)
  /\ emitted' = emitted + 1
  /\ shadow' = [shadow EXCEPT ![k] = c]

\* virtualCProvider.remove(k)
remove(k) ==
  /\ cache' = RemoveCache(k)
  /\ shadow' = [shadow EXCEPT ![k] = None]
  /\ UNCHANGED emitted

ProviderUpdate(k, c) ==
  /\ emitted < MaxUpdates
  /\ update(k, c)
  /\ UNCHANGED <<lastRead, syncVars, uiVars, resolveVars, commandVars>>

ProviderRemove(k) ==
  /\ remove(k)
  /\ UNCHANGED <<lastRead, syncVars, uiVars, resolveVars, commandVars>>

\* virtualCProvider.provideTextDocumentContent(k)
ProviderRead(k) ==
  /\ lastRead' = [key |-> k, value |-> provideTextDocumentContent(k),
                  expected |-> ShadowValue(k)]
  /\ UNCHANGED <<cache, emitted, shadow, syncVars, uiVars, resolveVars, commandVars>>

InitCache == CacheEmpty /\ SyncIdle /\ Quiet /\ ResolveIdle /\ CommandsIdle

NextCache ==
  \/ \E k \in Keys, c \in HarnessContents : ProviderUpdate(k, c)
  \/ \E k \in Keys : ProviderRemove(k)
  \/ \E k \in Keys : ProviderRead(k)

SpecCache == InitCache /\ [][NextCache]_vars

----------------------------------------------------------------------------
(* The refresh channel and the lifecycle handlers of a started session *)

DebounceMs == 500   \* the delay of the setTimeout in the change handler
TickMs == 250       \* the step by which the model's clock advances

LanguageClient == <<"LanguageClient">>

Min(a, b) == IF a < b THEN a ELSE b

\* A workspace/executeCommand mclsp.getVirtualC request: arguments [mccodeUri, sourceText]
Request(d, sourceText) == [uri |-> UriString(d), doc |-> d, sourceText |-> sourceText]

\* refreshVirtualC(mccodeUri, sourceText) up to its await: the requests it sends
RefreshWhenReady(d, sourceText) ==
  IF client = Undefined \/ ~ready THEN EmptyBag ELSE SetToBag({Request(d, sourceText)})
RefreshVirtualC(d, sourceText) ==
  IF client = Undefined THEN EmptyBag ELSE SetToBag({Request(d, sourceText)})

\* What the awaited sendRequest can produce for a request
Threw == [threw |-> TRUE, null |-> FALSE, virtualUri |-> Undefined, content |-> Undefined]
NullResult == [threw |-> FALSE, null |-> TRUE, virtualUri |-> Undefined, content |-> Undefined]
Result(virtualUri, content) ==
  [threw |-> FALSE, null |-> FALSE, virtualUri |-> virtualUri, content |-> content]

Answers(req) ==
  {Threw, NullResult,
   Result(ServerVirtualUri(req.doc), Undefined),
   Result(ServerVirtualUri(req.doc), EmptyString),
   Result(ServerVirtualUri(req.doc), ServerContent(req.doc, req.sourceText))}

\* ghost: the kind of an answer or of a notification's params
Outcome(r) ==
  CASE r.threw -> "threw"
    [] r.null -> "null"
    [] r.content = Undefined -> "no content"
    [] r.content = EmptyString -> "empty content"
    [] r.virtualUri = Undefined -> "no virtualUri"
    [] r.virtualUri = EmptyString -> "no virtualUri"
    [] OTHER -> "content"

\* result && result.content
ResultNotNull(result) == ~result.null
ResultHasContent(result) == ~result.null /\ ~Falsy(result.content)

\* params && params.virtualUri && params.content
ParamsOfOpenDocument(params) ==
  /\ ~params.null /\ ~Falsy(params.virtualUri) /\ ~Falsy(params.content)
  /\ \A d \in McCodeDocs : VirtualUriOnClose(d) = params.virtualUri => open[d]
ParamsHaveContent(params) ==
  ~params.null /\ ~Falsy(params.virtualUri) /\ ~Falsy(params.content)

\* ghost: content c, applied under key k, replaces a content that the server
\* derived from a later text of the same document
OverwritesNewer(k, c) == k \in DOMAIN cache /\ cache[k][3] > c[3]

\* The documents whose close handler removes key k
DocsOfKey(k) == {d \in McCodeDocs : ServerVirtualUri(d) = k}

\* A timeout has run out: its callback is the next thing the event loop runs
TimerDue == \E t \in timeouts : t.remaining = 0

Room(n) == BagCardinality(inflight) + n <= MaxInFlight

\* vscode.workspace.onDidOpenTextDocument
OpenImmediate(d) == RefreshVirtualC(d, text[d])
OpenPulls(d) == IF IsMcCode(d) THEN OpenImmediate(d) ELSE EmptyBag

DidOpen(d) ==
  /\ ~TimerDue
  /\ ~open[d]
  /\ opens < MaxOpens
  /\ Room(BagCardinality(OpenPulls(d)))
  /\ open' = [open EXCEPT ![d] = TRUE]
  /\ opens' = opens + 1
  /\ inflight' = inflight (+) OpenPulls(d)
  /\ UNCHANGED <<text, debounceTimer, timeouts, pushes, messages, uncaught, ready,
                 sinceEdit, editText, burstPulls, lastPull, closedSinceEdit, lastReply,
                 appliedSinceClose, cacheVars, resolveVars, commandVars>>

RECURSIVE Sum(_, _)
Sum(f, S) == IF S = {} THEN 0 ELSE LET x == CHOOSE y \in S : TRUE IN f[x] + Sum(f, S \ {x})

\* ghost: the number of change events so far
Edits == Sum(text, Docs)

\* vscode.workspace.onDidChangeTextDocument: the timer it leaves pending
TimerAfterChange(d) == [doc |-> d, remaining |-> DebounceMs]

\* clearTimeout(handle): the pending timeouts after the call
KeepTimeout(handle) == timeouts
ClearTimeout(handle) == timeouts \ {handle}

DidChange(d) ==
  /\ ~TimerDue
  /\ open[d]
  /\ Edits < MaxEdits
  /\ text' = [text EXCEPT ![d] = @ + 1]
  /\ IF IsMcCode(d)
       THEN /\ timeouts' = ClearTimeout(debounceTimer) \cup {TimerAfterChange(d)}
            /\ debounceTimer' = TimerAfterChange(d)
            /\ sinceEdit' = [sinceEdit EXCEPT ![d] = 0]
            /\ editText' = [editText EXCEPT ![d] = text'[d]]
            /\ burstPulls' = [burstPulls EXCEPT ![d] =
                 IF sinceEdit[d] = Never \/ sinceEdit[d] >= DebounceMs THEN 0 ELSE @]
            /\ closedSinceEdit' = [closedSinceEdit EXCEPT ![d] = FALSE]
       ELSE UNCHANGED <<debounceTimer, timeouts, sinceEdit, editText, burstPulls,
                        closedSinceEdit>>
  /\ UNCHANGED <<open, opens, inflight, pushes, messages, uncaught, ready, lastPull,
                 lastReply, appliedSinceClose, cacheVars, resolveVars, commandVars>>

\* The setTimeout callback of the change handler runs for the due timeout t
TimerFires(t) ==
  /\ t \in timeouts
  /\ t.remaining = 0
  /\ LET d == t.doc
         sent == RefreshVirtualC(d, text[d])
     IN /\ Room(BagCardinality(sent))
        /\ inflight' = inflight (+) sent
        /\ burstPulls' = [burstPulls EXCEPT ![d] = @ + BagCardinality(sent)]
        /\ lastPull' = [lastPull EXCEPT ![d] =
             [text |-> text[d], age |-> sinceEdit[d], closed |-> closedSinceEdit[d]]]
  /\ timeouts' = timeouts \ {t}
  /\ debounceTimer' = IF debounceTimer = t THEN Nothing ELSE debounceTimer
  /\ UNCHANGED <<open, text, opens, pushes, messages, uncaught, ready, sinceEdit,
                 editText, closedSinceEdit, lastReply,
                 appliedSinceClose, cacheVars, resolveVars, commandVars>>

\* vscode.workspace.onDidCloseTextDocument
CloseRemoves(d) == remove(VirtualUriOnClose(d))

DidClose(d) ==
  /\ ~TimerDue
  /\ open[d]
  /\ open' = [open EXCEPT ![d] = FALSE]
  /\ IF IsMcCode(d)
       THEN /\ CloseRemoves(d)
            /\ closedSinceEdit' = [closedSinceEdit EXCEPT ![d] = sinceEdit[d] # Never]
            /\ appliedSinceClose' = [appliedSinceClose EXCEPT ![d] = FALSE]
       ELSE UNCHANGED <<cache, shadow, emitted, closedSinceEdit, appliedSinceClose>>
  /\ UNCHANGED <<lastRead, text, opens, debounceTimer, timeouts, inflight, pushes,
                 messages, uncaught, ready, sinceEdit, editText, burstPulls, lastPull,
                 lastReply, resolveVars, commandVars>>


\* The awaited sendRequest of one refreshVirtualC settles: the rest of the function
Settle(req, result) ==
  /\ BagIn(req, inflight)
  /\ result \in Answers(req)
  /\ inflight' = inflight (-) SetToBag({req})
  /\ IF ~result.threw /\ ResultHasContent(result)
       THEN /\ update(result.virtualUri, result.content)
            /\ appliedSinceClose' = [d \in Docs |->
                 appliedSinceClose[d] \/ d \in DocsOfKey(result.virtualUri)]
       ELSE UNCHANGED <<cache, emitted, shadow, appliedSinceClose>>
  /\ lastReply' = [channel |-> "pull", failed |-> Outcome(result) # "content",
                   stale |-> Outcome(result) = "content"
                             /\ OverwritesNewer(result.virtualUri, result.content)]
  /\ UNCHANGED <<lastRead, open, text, opens, debounceTimer, timeouts, pushes, messages,
                 uncaught, ready, sinceEdit, editText, burstPulls, lastPull,
                 closedSinceEdit, resolveVars, commandVars>>

\* What a $/mclsp/virtualCDocumentContent notification can carry
PushParams ==
  {NullResult}
  \cup {Result(k, c) : k \in Keys \cup {Undefined}, c \in {Undefined, EmptyString}}
  \cup UNION {{Result(ServerVirtualUri(d), ServerContent(d, v)) : v \in 0..text[d]} :
              d \in McCodeDocs}
  \cup {Result(ForeignKey, ServerContent("other", 0)),
        Result(Undefined, ServerContent("other", 0))}

\* client.onNotification('$/mclsp/virtualCDocumentContent', ...)
OnNotification(params) ==
  /\ pushes < MaxPushes
  /\ pushes' = pushes + 1
  /\ IF ParamsHaveContent(params)
       THEN /\ update(params.virtualUri, params.content)
            /\ appliedSinceClose' = [d \in Docs |->
                 appliedSinceClose[d] \/ d \in DocsOfKey(params.virtualUri)]
       ELSE UNCHANGED <<cache, emitted, shadow, appliedSinceClose>>
  /\ lastReply' = [channel |-> "push", failed |-> Outcome(params) # "content",
                   stale |-> Outcome(params) = "content"
                             /\ OverwritesNewer(params.virtualUri, params.content)]
  /\ UNCHANGED <<lastRead, open, text, opens, debounceTimer, timeouts, inflight,
                 messages, uncaught, ready, sinceEdit, editText, burstPulls, lastPull,
                 closedSinceEdit, resolveVars, commandVars>>

\* client.start().then(...): every open McCode document is refreshed
StartRefresh ==
  LET RECURSIVE All(_)
      All(S) == IF S = {} THEN EmptyBag
                ELSE LET d == CHOOSE x \in S : TRUE
                     IN RefreshVirtualC(d, text[d]) (+) All(S \ {d})
  IN All({d \in Docs : open[d] /\ IsMcCode(d)})

ClientStarted ==
  /\ ~TimerDue
  /\ ~ready
  /\ Room(BagCardinality(StartRefresh))
  /\ ready' = TRUE
  /\ inflight' = inflight (+) StartRefresh
  /\ UNCHANGED <<open, text, opens, debounceTimer, timeouts, pushes, messages, uncaught,
                 sinceEdit, editText, burstPulls, lastPull, closedSinceEdit, lastReply,
                 appliedSinceClose, cacheVars, resolveVars, commandVars>>

\* t after dt ms
Later(t, dt) == [t EXCEPT !.remaining = @ - dt]

\* Time passes: TickMs, or less when a pending timeout is due sooner (a
\* timeout that is due runs before anything else happens)
Tick ==
  /\ ~TimerDue
  /\ timeouts # {} \/ \E d \in Docs : sinceEdit[d] # Never /\ sinceEdit[d] < DebounceMs
  /\ LET dt == IF \E t \in timeouts : t.remaining < TickMs
               THEN CHOOSE r \in {t.remaining : t \in timeouts} :
                      \A t \in timeouts : r <= t.remaining
               ELSE TickMs
     IN /\ timeouts' = {Later(t, dt) : t \in timeouts}
        /\ debounceTimer' = IF debounceTimer = Nothing THEN Nothing
                            ELSE Later(debounceTimer, dt)
        /\ sinceEdit' = [d \in Docs |->
             IF sinceEdit[d] = Never THEN Never ELSE Min(DebounceMs, sinceEdit[d] + dt)]
  /\ UNCHANGED <<open, text, opens, inflight, pushes, messages, uncaught, ready, editText,
                 burstPulls, lastPull, closedSinceEdit, lastReply,
                 appliedSinceClose, cacheVars, resolveVars, commandVars>>

\* A session whose activate has run to its end: the server was resolved, the
\* client created, the handlers registered, client.start() called.
ResolvedSession ==
  /\ pc = "activated"
  /\ env = Nothing
  /\ probes = <<>>
  /\ python = Undefined
  /\ server = [command |-> <<"mclsp">>, args |-> <<"--stdio">>]
  /\ client = LanguageClient
  /\ resolvedPython = Undefined
  /\ promptChoice = None
  /\ installs = <<>>
  /\ subscriptions = PassiveRegistrations \cup HandlerRegistrations

InitSync == CacheEmpty /\ SyncIdle /\ Quiet /\ ResolvedSession /\ CommandsIdle

NextSync ==
  \/ \E d \in Docs : DidOpen(d)
  \/ \E d \in Docs : DidChange(d)
  \/ \E d \in Docs : DidClose(d)
  \/ \E t \in timeouts : TimerFires(t)
  \/ \E req \in DOMAIN inflight : \E result \in Answers(req) : Settle(req, result)
  \/ \E params \in PushParams : OnNotification(params)
  \/ ClientStarted
  \/ Tick

SpecSync == InitSync /\ [][NextSync]_vars

----------------------------------------------------------------------------
(* The same session with a server that answers every pull with the content
   derived from the sourceText of the request, with no push, and with
   documents that stay open once opened. The event loop runs every due
   timeout, time passes, client.start() resolves and every request is
   answered. *)

Derived(req) == Result(ServerVirtualUri(req.doc), ServerContent(req.doc, req.sourceText))

Answered(req) == Settle(req, Derived(req))

NextLive ==
  \/ \E d \in Docs : DidOpen(d)
  \/ \E d \in Docs : DidChange(d)
  \/ \E t \in timeouts : TimerFires(t)
  \/ \E req \in DOMAIN inflight : Answered(req)
  \/ ClientStarted
  \/ Tick

SpecLive ==
  /\ InitSync
  /\ [][NextLive]_vars
  /\ WF_vars(\E t \in timeouts : TimerFires(t))
  /\ WF_vars(\E req \in DOMAIN inflight : Answered(req))
  /\ WF_vars(ClientStarted)
  /\ WF_vars(Tick)

----------------------------------------------------------------------------
(* Properties of the provider *)

\* C1: read(key) returns the content of the most recent update of that key
\* since its last remove, and the placeholder when there is none; calls on
\* other keys leave it alone (the ghost `shadow` changes at the called key only).
C1_ReadLastUpdate ==
  /\ \A k \in Keys : provideTextDocumentContent(k) = ShadowValue(k)
  /\ lastRead # Nothing => lastRead.value = lastRead.expected

\* An empty content was stored under one key while another key holds an
\* entry, every allowed update was made, and the read of the first key
\* returned the empty content, not the placeholder.
C1_Witness ==
  /\ lastRead # Nothing
  /\ shadow[lastRead.key] = EmptyString
  /\ lastRead.value = EmptyString
  /\ \E k \in Keys \ {lastRead.key} : k \in DOMAIN cache
  /\ emitted = MaxUpdates

----------------------------------------------------------------------------
(* Properties of the scheduler and of the refresh channel *)

\* C2: a burst of change events on one McCode document, each less than 500 ms
\* after the one before, gets exactly one debounced pull: none while the
\* window of its last edit runs, and once the window has run out (and the due
\* timer has run) exactly one, not earlier than 500 ms after the last edit and
\* carrying the text as of the last edit.
C2_OnePullPerBurst ==
  \A d \in McCodeDocs :
    sinceEdit[d] # Never =>
      /\ sinceEdit[d] < DebounceMs => burstPulls[d] = 0
      /\ (sinceEdit[d] >= DebounceMs /\ ~TimerDue) =>
           /\ burstPulls[d] = 1
           /\ lastPull[d].text = editText[d]
           /\ lastPull[d].age >= DebounceMs

\* C3: a change event on one document neither cancels nor postpones the
\* pending debounce timer of a different document.
C3_OtherDocumentKeepsTimer ==
  [][\A a \in McCodeDocs :
       (/\ debounceTimer # Nothing
        /\ debounceTimer.doc = a
        /\ \E b \in Docs \ {a} : text'[b] # text[b])
       => debounceTimer' = debounceTimer]_vars

\* C4: closing a McCode document cancels its pending debounce timer, so that
\* no debounced pull is issued for a document closed since its last edit, and
\* the close itself sends no request.
C4_CloseCancelsTimer ==
  /\ [][\A d \in McCodeDocs :
          (open[d] /\ ~open'[d]) =>
            /\ inflight' = inflight
            /\ (debounceTimer # Nothing /\ debounceTimer.doc = d) => debounceTimer' = Nothing
       ]_vars
  /\ [](\A d \in McCodeDocs : lastPull[d] # Nothing => ~lastPull[d].closed)

\* C5: an open event of a McCode document sends exactly one request in the
\* same step, carrying the document's current text, whether or not a timer is
\* pending and whether or not client.start() has resolved, and leaves the
\* debounce timer as it was.
C5_OpenPullsOnce ==
  [][\A d \in McCodeDocs :
       (~open[d] /\ open'[d]) =>
         /\ inflight' = inflight (+) SetToBag({Request(d, text[d])})
         /\ debounceTimer' = debounceTimer]_vars

\* The session is not ready, the one edit so far (of foo) left a timer that is
\* still pending and has never fired, and a request carrying the edited text
\* is in flight: only an open event of foo, after the edit, can have sent it.
C5_Witness ==
  /\ ~ready
  /\ Edits = 1
  /\ text["foo"] = 1
  /\ debounceTimer # Nothing
  /\ \A d \in Docs : lastPull[d] = Nothing
  /\ BagIn(Request("foo", 1), inflight)

\* C9: a pull that throws or returns no result or an absent or empty content,
\* and a push with absent or empty content (or no params, or no virtualUri),
\* leaves the cache as it was, fires no change event, shows no message and
\* lets no exception escape.
C9_FailedRefreshIsDropped ==
  [][((BagCardinality(inflight') < BagCardinality(inflight) \/ pushes' # pushes)
       /\ lastReply'.failed)
     => /\ cache' = cache
        /\ emitted' = emitted
        /\ messages' = messages
        /\ uncaught' = uncaught
        /\ ~uncaught]_vars

\* A failed pull was consumed while the cache held an entry.
C9_Witness ==
  /\ lastReply # Nothing
  /\ lastReply.channel = "pull"
  /\ lastReply.failed
  /\ DOMAIN cache # {}

\* C10: a closed McCode document to whose key no update was applied since
\* the close has no entry: the read of its virtual key returns the
\* placeholder and no cache entry holds content derived from it.
C10_CloseRemovesEntry ==
  \A d \in McCodeDocs :
    (~open[d] /\ ~appliedSinceClose[d]) =>
      /\ provideTextDocumentContent(ServerVirtualUri(d)) = Placeholder
      /\ \A k \in DOMAIN cache : cache[k][2] # d

\* One document was opened, the result of a pull for it was applied, it was
\* closed after that, and the cache is empty again.
C10_Witness ==
  /\ opens = 1
  /\ lastReply # Nothing
  /\ lastReply.channel = "pull"
  /\ ~lastReply.failed
  /\ \A d \in Docs : ~open[d] /\ ~appliedSinceClose[d]
  /\ cache = EmptyMap

\* C11: updates are applied whatever the open/closed state of the source
\* document. A pull answered with content sets the entry under the key the
\* close handler removes for its document to that content, and a push with a
\* virtualUri and a content sets one entry and leaves the others alone; each
\* fires the change event. (The steps are those of every document, the
\* closed ones included.)
C11_AppliedWhateverOpenState ==
  [][/\ \A req \in DOMAIN inflight :
          (inflight' = inflight (-) SetToBag({req}) /\ ~lastReply'.failed)
          => /\ VirtualUriOnClose(req.doc) \in DOMAIN cache'
             /\ cache'[VirtualUriOnClose(req.doc)] = <<"C", req.doc, req.sourceText>>
             /\ emitted' = emitted + 1
     /\ (pushes' # pushes /\ ~lastReply'.failed)
          => /\ emitted' = emitted + 1
             /\ \E k \in Keys :
                  /\ DOMAIN cache' = DOMAIN cache \cup {k}
                  /\ \A j \in DOMAIN cache \ {k} : cache'[j] = cache[j]
    ]_vars

\* Two documents were opened and closed without an edit, so that every pull
\* was sent while its document was open; exactly two updates were ever
\* applied, the last one by a push; and the entries of both closed documents
\* are in the cache: one was put back by the push, the other by the answer to
\* a pull that was in flight when its document was closed.
C11_Witness ==
  /\ \A d \in Docs : ~open[d]
  /\ Edits = 0
  /\ lastReply # Nothing
  /\ lastReply.channel = "push"
  /\ ~lastReply.failed
  /\ emitted = 2
  /\ DOMAIN cache = {VirtualUriOnClose("foo"), VirtualUriOnClose("bar")}

\* C15: at no time are two timeouts pending for the same document; a change
\* event on a McCode document leaves exactly one timeout pending for it, the
\* new one at its full delay, any earlier one being cancelled; and the
\* debounced pulls of a document carry its texts in edit order.
C15_OneTimerPerDocument ==
  /\ [](\A d \in Docs : Cardinality({t \in timeouts : t.doc = d}) <= 1)
  /\ [][\A d \in McCodeDocs :
          /\ text'[d] # text[d] =>
               {t \in timeouts' : t.doc = d} = {[doc |-> d, remaining |-> DebounceMs]}
          /\ (lastPull[d] # Nothing /\ lastPull'[d] # lastPull[d]) =>
               lastPull'[d].text >= lastPull[d].text
       ]_vars

\* foo was edited twice and no debounced pull was issued for it yet, so the
\* timeout of the first edit was pending at the second one; the only timeout
\* pending now is the one of the second edit.
C15_Witness ==
  /\ text["foo"] = 2
  /\ lastPull["foo"] = Nothing
  /\ timeouts = {[doc |-> "foo", remaining |-> DebounceMs]}
  /\ sinceEdit["foo"] = 0

\* C17: whatever the channels and whatever was requested first, the content
\* held for a key is the content of the update applied to it last (since the
\* key was last removed), and a key to which none was applied has no entry.
C17_LastAppliedWins ==
  /\ \A k \in DOMAIN cache : k \in Keys /\ shadow[k] # None /\ cache[k] = shadow[k]
  /\ \A k \in Keys \ DOMAIN cache : shadow[k] = None

\* foo was opened once, before the session was ready, and never closed, and
\* no debounced pull was issued: one pull was ever sent, with the text before
\* the edit. Two updates were applied to foo's key and to no other key: a push
\* first, and then the answer to that pull, which replaced a content derived
\* from a later text. The cache holds the content of the text before the edit.
C17_Witness ==
  /\ opens = 1 /\ open["foo"] /\ ~ready
  /\ \A d \in Docs : lastPull[d] = Nothing
  /\ text["foo"] = 1
  /\ pushes = 1
  /\ emitted = 2
  /\ lastReply # Nothing
  /\ lastReply.channel = "pull"
  /\ lastReply.stale
  /\ DOMAIN cache = {VirtualUriOnClose("foo")}
  /\ cache[VirtualUriOnClose("foo")] = <<"C", "foo", 0>>

\* C20: every McCode document that is open from some time on has, from some
\* time on, a cache entry holding the content derived from its text (its
\* final text, the edits being finitely many), whatever other documents are
\* edited and in whatever order the answers arrive.
C20_EventuallyFinalText ==
  \A d \in McCodeDocs :
    <>[](open[d] => /\ VirtualUriOnClose(d) \in DOMAIN cache
                    /\ cache[VirtualUriOnClose(d)] = <<"C", d, text[d]>>)

----------------------------------------------------------------------------
(* Server discovery and auto-install: activate, resolveMclspServer, findPython *)

\* How a child process run by execFileAsync can end: exit code 0, a non-zero
\* exit code, the timeout, or a spawn error
ExecOutcomes == {"ok", "exit", "timeout", "ENOENT", "EACCES"}

\* commandExists(cmd), given how `cmd --version` ended
ExistsUnlessENOENT(outcome) == outcome # "ENOENT"
CommandExists(outcome) == outcome = "ok" \/ (outcome # "ENOENT" /\ outcome # "EACCES")

\* isMclspInstalled(python), given how `python -m mclsp --version` ended
IsMclspInstalled(outcome) == outcome = "ok"

\* Decimal digits
DigitChars == <<"0", "1", "2", "3", "4", "5", "6", "7", "8", "9">>
IsDigit(c) == \E i \in 1..Len(DigitChars) : DigitChars[i] = c
DigitVal(c) == (CHOOSE i \in 1..Len(DigitChars) : DigitChars[i] = c) - 1

\* The decimal numeral of n
RECURSIVE Digits(_)
Digits(n) ==
  IF n < Len(DigitChars) THEN <<DigitChars[n + 1]>>
  ELSE Digits(n \div Len(DigitChars)) \o <<DigitChars[(n % Len(DigitChars)) + 1]>>

\* What `python --version` prints for version major.minor.0
VersionStdout(major, minor) ==
  <<"Python", " ">> \o Digits(major) \o <<".">> \o Digits(minor) \o <<".", "0", "\n">>

\* The longest run of digits of s that starts at i
RECURSIVE DigitRun(_, _)
DigitRun(s, i) ==
  IF i <= Len(s) /\ IsDigit(s[i]) THEN <<s[i]>> \o DigitRun(s, i + 1) ELSE <<>>

\* stdout.match(/Python 3\.(\d+)/): the captured group, or Undefined for no match
MatchPython3(stdout) ==
  LET starts == {i \in 1..Len(stdout) :
                   /\ i + 4 <= Len(stdout)
                   /\ stdout[i] = "Python"
                   /\ stdout[i + 1] = " "
                   /\ stdout[i + 2] = "3"
                   /\ stdout[i + 3] = "."
                   /\ IsDigit(stdout[i + 4])}
  IN IF starts = {} THEN Undefined
     ELSE DigitRun(stdout, (CHOOSE i \in starts : \A j \in starts : i <= j) + 4)

\* parseInt(digits, 10)
RECURSIVE ParseInt(_)
ParseInt(ds) ==
  IF ds = <<>> THEN 0 ELSE ParseInt(SubSeq(ds, 1, Len(ds) - 1)) * 10 + DigitVal(ds[Len(ds)])

MinMinor == 10

\* parseInt(m[1], 10) >= 10
AboveMinimum(n) == n > MinMinor
MeetsMinimum(n) == n >= MinMinor

\* m && parseInt(m[1], 10) >= 10, for the stdout of `candidate --version`
CandidateAccepted(stdout) ==
  LET m == MatchPython3(stdout)
  IN m # Undefined /\ MeetsMinimum(ParseInt(m))

\* for (const candidate of ['python3', 'python'])
Candidates == << <<"python3">>, <<"python">> >>

ExtensionInterpreter == <<"/venv/bin/python">>
InstallNow == <<"Install now">>
NotNow == <<"Not now">>

\* choice !== 'Install now' fails
AcceptsUnlessNotNow(choice) == choice # NotNow
AcceptsInstall(choice) == choice = InstallNow

\* The settings, the process environment and the stored state activate can find
Environments ==
  [serverPath : {Undefined, EmptyString, <<" ">>, <<"/opt/mclsp">>, <<" ", "/opt/mclsp", " ">>},
   MCLSP_SERVER : {Undefined, EmptyString, <<"/env/mclsp">>},
   pythonPath : {Undefined, <<" ", "/opt/python", " ">>},
   pyExt : {"absent", "throws", "no interpreter", "interpreter"},
   resolvedPython : {Undefined, <<"/old/python">>}]

\* (config.get('serverPath') || '').trim()
ConfiguredPathUntrimmed == OrElse(env.serverPath, EmptyString)
ConfiguredPath == Trim(OrElse(env.serverPath, EmptyString))

\* (config.get('pythonPath') || '').trim()
ConfiguredPython == Trim(OrElse(env.pythonPath, EmptyString))

Command(command, args) == [command |-> command, args |-> args]

\* activate after `await resolveMclspServer(context)` returned `result`
\* (Nothing for null): `if (!server) return;`, then the client is created
SubscriptionsOnSuccess(result) ==
  IF result = Nothing THEN {} ELSE PassiveRegistrations \cup HandlerRegistrations
SubscriptionsAfter(result) ==
  PassiveRegistrations \cup (IF result = Nothing THEN {} ELSE HandlerRegistrations)

\* `if (!server) return;` ... `client = new LanguageClient(...)`
ClientAlways(result) == LanguageClient
ClientAfter(result) == IF result = Nothing THEN client ELSE LanguageClient

Resolved(result) ==
  /\ server' = result
  /\ subscriptions' = SubscriptionsAfter(result)
  /\ client' = ClientAfter(result)
  /\ pc' = IF result = Nothing THEN "no server" ELSE "activated"

\* resolveMclspServer, from the interpreter found to its `return`, given that
\* mclsp is installed in it (or has just been)
ResolvedInterpreter(p) ==
  /\ resolvedPython' = p
  /\ Resolved(Command(p, <<"-m", "mclsp", "--stdio">>))

\* findPython returned null: the error message, and resolveMclspServer returns null
NoPython ==
  /\ messages' = messages + 1
  /\ Resolved(Nothing)
  /\ UNCHANGED <<python, resolvedPython>>

\* findPython returned p: resolveMclspServer goes on to isMclspInstalled(p)
FoundPython(p) ==
  /\ python' = p
  /\ pc' = "isMclspInstalled"
  /\ UNCHANGED <<messages, server, client, subscriptions, resolvedPython>>

\* findPython step 2 onwards
AfterConfiguredPython ==
  /\ pc' = IF env.pyExt = "absent" THEN "candidate 1" ELSE "pyExt.activate"
  /\ UNCHANGED <<messages, python, server, client, subscriptions, resolvedPython>>

Probe(cmd, kind, outcome, version) ==
  [cmd |-> cmd, kind |-> kind, outcome |-> outcome, version |-> version]

\* activate up to the first await that suspends it on a child process
Activate ==
  /\ pc = "idle"
  /\ IF ConfiguredPath # EmptyString
       THEN Resolved(Command(ConfiguredPath, <<"--stdio">>))
       ELSE IF ~Falsy(env.MCLSP_SERVER)
         THEN Resolved(Command(env.MCLSP_SERVER, <<"--stdio">>))
         ELSE /\ pc' = "commandExists mclsp"
              /\ subscriptions' = PassiveRegistrations
              /\ UNCHANGED <<server, client>>
  /\ UNCHANGED <<env, probes, python, resolvedPython, promptChoice, installs, messages,
                 uncaught, cacheVars, syncVars, commandVars>>

\* `await commandExists('mclsp')` settles, and findPython starts if it is false
MclspProbed(outcome) ==
  /\ pc = "commandExists mclsp"
  /\ probes' = Append(probes, Probe(<<"mclsp">>, "exists", outcome, <<>>))
  /\ IF CommandExists(outcome)
       THEN Resolved(Command(<<"mclsp">>, <<"--stdio">>)) /\ UNCHANGED <<messages, python, resolvedPython>>
       ELSE IF ConfiguredPython # EmptyString
         THEN /\ pc' = "commandExists pythonPath"
              /\ UNCHANGED <<messages, python, server, client, subscriptions, resolvedPython>>
         ELSE AfterConfiguredPython
  /\ UNCHANGED <<env, promptChoice, installs, uncaught, cacheVars, syncVars, commandVars>>

\* findPython step 1: `await commandExists(configuredPython)` settles. The
\* probe runs `configuredPython --version`; version is what it printed (<<>>
\* when the run failed or printed no version), which commandExists ignores.
ConfiguredPythonProbed(outcome, version) ==
  /\ pc = "commandExists pythonPath"
  /\ outcome # "ok" => version = <<>>
  /\ probes' = Append(probes, Probe(ConfiguredPython, "exists", outcome, version))
  /\ IF CommandExists(outcome) THEN FoundPython(ConfiguredPython) ELSE AfterConfiguredPython
  /\ UNCHANGED <<env, promptChoice, installs, uncaught, cacheVars, syncVars, commandVars>>

\* findPython step 2: `await pyExt.activate()` settles and the interpreter is read
PyExtActivated ==
  /\ pc = "pyExt.activate"
  /\ pc' = IF env.pyExt = "interpreter" THEN "commandExists interp" ELSE "candidate 1"
  /\ UNCHANGED <<env, probes, python, server, client, subscriptions, resolvedPython, promptChoice,
                 installs, messages, uncaught, cacheVars, syncVars, commandVars>>

\* findPython step 2: `await commandExists(interp)` settles (version as above)
InterpreterProbed(outcome, version) ==
  /\ pc = "commandExists interp"
  /\ outcome # "ok" => version = <<>>
  /\ probes' = Append(probes, Probe(ExtensionInterpreter, "exists", outcome, version))
  /\ IF CommandExists(outcome)
       THEN FoundPython(ExtensionInterpreter)
       ELSE /\ pc' = "candidate 1"
            /\ UNCHANGED <<messages, python, server, client, subscriptions, resolvedPython>>
  /\ UNCHANGED <<env, promptChoice, installs, uncaught, cacheVars, syncVars, commandVars>>

\* The versions a PATH candidate can report
Versions == {<<2, 7>>, <<3, 9>>, <<3, 10>>, <<3, 12>>, <<4, 0>>}

\* findPython's loop over the PATH candidates: `await execFileAsync(candidate,
\* ['--version'])` settles for candidate i. version is <<>> when the run
\* failed or printed no version on stdout.
CandidateProbed(i, outcome, version) ==
  /\ pc = IF i = 1 THEN "candidate 1" ELSE "candidate 2"
  /\ outcome # "ok" => version = <<>>
  /\ probes' = Append(probes, Probe(Candidates[i], "version", outcome, version))
  /\ LET stdout == IF version = <<>> THEN EmptyString
                   ELSE VersionStdout(version[1], version[2])
     IN IF outcome = "ok" /\ CandidateAccepted(stdout)
          THEN FoundPython(Candidates[i])
          ELSE IF i < Len(Candidates)
            THEN /\ pc' = "candidate 2"
                 /\ UNCHANGED <<messages, python, server, client, subscriptions, resolvedPython>>
            ELSE NoPython
  /\ UNCHANGED <<env, promptChoice, installs, uncaught, cacheVars, syncVars, commandVars>>

\* `await isMclspInstalled(python)` settles; the install prompt is shown if it is false
InstalledProbed(outcome) ==
  /\ pc = "isMclspInstalled"
  /\ probes' = Append(probes, Probe(python, "module", outcome, <<>>))
  /\ IF IsMclspInstalled(outcome)
       THEN ResolvedInterpreter(python) /\ UNCHANGED messages
       ELSE /\ pc' = "prompt"
            /\ messages' = messages + 1
            /\ UNCHANGED <<server, client, subscriptions, resolvedPython>>
  /\ UNCHANGED <<env, python, promptChoice, installs, uncaught, cacheVars, syncVars, commandVars>>

\* `await vscode.window.showInformationMessage(...)` settles with the user's answer
PromptAnswered(choice) ==
  /\ pc = "prompt"
  /\ promptChoice' = choice
  /\ IF AcceptsInstall(choice)
       THEN pc' = "installMclsp" /\ UNCHANGED <<server, client, subscriptions>>
       ELSE Resolved(Nothing)
  /\ UNCHANGED <<env, probes, python, resolvedPython, installs, messages, uncaught,
                 cacheVars, syncVars, commandVars>>

\* installMclsp(python), given how `python -m pip install --upgrade mclsp` ended
InstalledUnlessTimeout(outcome) == outcome = "ok" \/ outcome = "timeout"
InstallMclsp(outcome) == outcome = "ok"

\* `await installMclsp(python)` settles: pip ended with `outcome`
InstallEnded(outcome) ==
  /\ pc = "installMclsp"
  /\ installs' = Append(installs, outcome)
  /\ IF InstallMclsp(outcome)
       THEN ResolvedInterpreter(python) /\ UNCHANGED messages
       ELSE /\ messages' = messages + 1
            /\ Resolved(Nothing)
            /\ UNCHANGED resolvedPython
  /\ UNCHANGED <<env, probes, python, promptChoice, uncaught, cacheVars, syncVars, commandVars>>

InitResolve ==
  /\ CacheEmpty /\ SyncIdle /\ Quiet /\ CommandsIdle
  /\ subscriptions = {}
  /\ pc = "idle"
  /\ env \in Environments
  /\ probes = <<>>
  /\ python = Undefined
  /\ server = Nothing
  /\ client = Undefined
  /\ resolvedPython = env.resolvedPython
  /\ promptChoice = None
  /\ installs = <<>>

NextResolve ==
  \/ Activate
  \/ \E outcome \in ExecOutcomes : MclspProbed(outcome)
  \/ \E outcome \in ExecOutcomes, version \in Versions \cup {<<>>} :
       ConfiguredPythonProbed(outcome, version)
  \/ PyExtActivated
  \/ \E outcome \in ExecOutcomes, version \in Versions \cup {<<>>} :
       InterpreterProbed(outcome, version)
  \/ \E i \in 1..Len(Candidates), outcome \in ExecOutcomes, version \in Versions \cup {<<>>} :
       CandidateProbed(i, outcome, version)
  \/ \E outcome \in ExecOutcomes : InstalledProbed(outcome)
  \/ \E choice \in {InstallNow, NotNow, Undefined} : PromptAnswered(choice)
  \/ \E outcome \in ExecOutcomes : InstallEnded(outcome)

SpecResolve == InitResolve /\ [][NextResolve]_vars

----------------------------------------------------------------------------
(* The two commands registered by activate, and deactivate *)

MaxCommands == 1   \* command invocations

\* vscode.window.activeTextEditor: none, or the editor of an open document
NoEditor == "no editor"

\* The documents that are open in the editor when the extension is activated
DocumentsAtActivation == {"foo", "notes"}

\* ghost: the record of an invocation that has ended. session: `client` was
\* set when it began; answer: what the awaited request produced (Nothing when
\* none was sent); message: the kind of message it showed; opened: the
\* document it opened, "threw" when openTextDocument or showTextDocument threw
Ended(name, session, answer, message, opened) ==
  [name |-> name, session |-> session, answer |-> answer, message |-> message,
   opened |-> opened]

Invocations == Len(outcomes) + (IF pending = Nothing THEN 0 ELSE 1)

\* `!result || !result.content`
ShowResultNull(result) == result.null
ShowResultMissing(result) == result.null \/ Falsy(result.content)

\* mccode.showVirtualC is invoked and runs up to its await (or to its end)
ShowVirtualC(editor) ==
  /\ "mccode.showVirtualC" \in subscriptions
  /\ pending = Nothing
  /\ Invocations < MaxCommands
  /\ editor # NoEditor => open[editor]
  /\ IF client = Undefined
       THEN /\ messages' = messages + 1
            /\ outcomes' = Append(outcomes,
                 Ended("showVirtualC", FALSE, Nothing, "error", "nothing"))
            /\ UNCHANGED pending
       ELSE IF editor = NoEditor \/ ~MatchesExtension(UriPath(editor))
         THEN /\ messages' = messages + 1
              /\ outcomes' = Append(outcomes,
                   Ended("showVirtualC", TRUE, Nothing, "information", "nothing"))
              /\ UNCHANGED pending
         ELSE /\ pending' = [name |-> "showVirtualC",
                             request |-> Request(editor, text[editor])]
              /\ UNCHANGED <<messages, outcomes>>
  /\ UNCHANGED <<uncaught, stopped, cacheVars, syncVars, resolveVars>>

TempPath == <<"/tmp/mclsp/foo.c">>

\* The awaited sendRequest of mccode.showVirtualC settles: the rest of the
\* command. tempPath is result.tempPath; shown tells whether openTextDocument
\* and showTextDocument went through or one of them threw. After client.stop()
\* the request is rejected, if it settles at all.
ShowAnswered(result, tempPath, shown) ==
  /\ pc = "deactivated" => result.threw
  /\ pending # Nothing
  /\ pending.name = "showVirtualC"
  /\ result \in Answers(pending.request)
  /\ pending' = Nothing
  /\ IF result.threw \/ ShowResultMissing(result)
       THEN /\ messages' = messages + 1
            /\ outcomes' = Append(outcomes,
                 Ended("showVirtualC", TRUE, result, "error", "nothing"))
            /\ UNCHANGED uncaught
       ELSE /\ outcomes' = Append(outcomes,
                 Ended("showVirtualC", TRUE, result, "none",
                       IF ~shown THEN "threw"
                       ELSE IF ~Falsy(tempPath) THEN "file" ELSE "untitled"))
            /\ uncaught' = (uncaught \/ ~shown)
            /\ UNCHANGED messages
  /\ UNCHANGED <<stopped, cacheVars, syncVars, resolveVars>>

\* findPython as the reinstall command runs it: where it is suspended
FindPythonAwaits ==
  {"commandExists pythonPath", "pyExt.activate", "commandExists interp",
   "candidate 1", "candidate 2"}

Await(at) == [at |-> at, python |-> Undefined]
Found(p) == [at |-> "installMclsp", python |-> p]
NotFound == [at |-> "none", python |-> Undefined]

AfterConfiguredAt == IF env.pyExt = "absent" THEN "candidate 1" ELSE "pyExt.activate"

FindPythonStart ==
  IF ConfiguredPython # EmptyString THEN "commandExists pythonPath" ELSE AfterConfiguredAt

\* findPython suspended at `at`: where the settling of that await, with how
\* the child process ended and the version it printed, takes it
FindPythonStep(at, outcome, version) ==
  LET stdout == IF version = <<>> THEN EmptyString
                ELSE VersionStdout(version[1], version[2])
      accepted == outcome = "ok" /\ CandidateAccepted(stdout)
  IN CASE at = "commandExists pythonPath" ->
            IF CommandExists(outcome) THEN Found(ConfiguredPython) ELSE Await(AfterConfiguredAt)
       [] at = "pyExt.activate" ->
            Await(IF env.pyExt = "interpreter" THEN "commandExists interp" ELSE "candidate 1")
       [] at = "commandExists interp" ->
            IF CommandExists(outcome) THEN Found(ExtensionInterpreter) ELSE Await("candidate 1")
       [] at = "candidate 1" ->
            IF accepted THEN Found(Candidates[1]) ELSE Await("candidate 2")
       [] OTHER ->
            IF accepted THEN Found(Candidates[2]) ELSE NotFound

\* mccode.reinstallServer is invoked and runs up to its first await
ReinstallServer ==
  /\ "mccode.reinstallServer" \in subscriptions
  /\ pending = Nothing
  /\ Invocations < MaxCommands
  /\ pending' = [name |-> "reinstallServer"] @@
                 (IF ~Falsy(resolvedPython) THEN Found(resolvedPython)
                  ELSE Await(FindPythonStart))
  /\ UNCHANGED <<outcomes, stopped, uiVars, cacheVars, syncVars, resolveVars>>

\* An await of the command's findPython settles
ReinstallProbed(outcome, version) ==
  /\ pc # "deactivated"
  /\ pending # Nothing
  /\ pending.name = "reinstallServer"
  /\ pending.at \in FindPythonAwaits
  /\ outcome # "ok" => version = <<>>
  /\ pending.at = "pyExt.activate" => outcome = "ok" /\ version = <<>>
  /\ LET next == FindPythonStep(pending.at, outcome, version)
     IN IF next = NotFound
          THEN /\ messages' = messages + 1
               /\ outcomes' = Append(outcomes,
                    Ended("reinstallServer", client # Undefined, Nothing, "error", "nothing"))
               /\ pending' = Nothing
          ELSE /\ pending' = [name |-> "reinstallServer"] @@ next
               /\ UNCHANGED <<messages, outcomes>>
  /\ UNCHANGED <<uncaught, stopped, cacheVars, syncVars, resolveVars>>

\* `await installMclsp(python)` of the command settles: installMclsp has shown
\* its error if pip failed, and the command shows its message if it did not
ReinstallEnded(outcome) ==
  /\ pc # "deactivated"
  /\ pending # Nothing
  /\ pending.name = "reinstallServer"
  /\ pending.at = "installMclsp"
  /\ messages' = messages + 1
  /\ outcomes' = Append(outcomes,
       Ended("reinstallServer", client # Undefined, Nothing,
             IF InstallMclsp(outcome) THEN "information" ELSE "error", "nothing"))
  /\ pending' = Nothing
  /\ UNCHANGED <<uncaught, stopped, cacheVars, syncVars, resolveVars>>

\* deactivate(): `if (client) return client.stop()`. The editor calls it when
\* it takes the extension down, and disposes context.subscriptions
StopsClient == client # Undefined

Deactivate ==
  /\ pc # "idle"
  /\ pc # "deactivated"
  /\ pc' = "deactivated"
  /\ stopped' = StopsClient
  /\ subscriptions' = {}
  /\ UNCHANGED <<env, probes, python, server, client, resolvedPython, promptChoice,
                 installs, pending, outcomes, uiVars, cacheVars, syncVars>>

\* The settings the commands are explored with: mccode.serverPath set, and
\* nothing else; or no server configured, and either nothing else or both
\* mccode.pythonPath and an interpreter of the Python extension; each with and
\* without an interpreter stored by an earlier session
CommandEnvironments ==
  {e \in Environments :
     /\ e.MCLSP_SERVER = Undefined
     /\ e.serverPath \in {Undefined, <<"/opt/mclsp">>}
     /\ e.pyExt \in {"absent", "interpreter"}
     /\ e.pythonPath # Undefined <=> e.pyExt = "interpreter"
     /\ e.serverPath # Undefined => e.pyExt = "absent"}

InitCommands ==
  /\ CacheEmpty /\ SchedulerIdle /\ Quiet /\ CommandsIdle
  /\ open = [d \in Docs |-> d \in DocumentsAtActivation]
  /\ pc = "idle"
  /\ env \in CommandEnvironments
  /\ probes = <<>>
  /\ python = Undefined
  /\ server = Nothing
  /\ client = Undefined
  /\ resolvedPython = env.resolvedPython
  /\ promptChoice = None
  /\ installs = <<>>
  /\ subscriptions = {}

NextCommands ==
  \/ Activate
  \/ \E outcome \in ExecOutcomes : MclspProbed(outcome)
  \/ \E outcome \in ExecOutcomes, version \in Versions \cup {<<>>} :
       ConfiguredPythonProbed(outcome, version)
  \/ PyExtActivated
  \/ \E outcome \in ExecOutcomes, version \in Versions \cup {<<>>} :
       InterpreterProbed(outcome, version)
  \/ \E i \in 1..Len(Candidates), outcome \in ExecOutcomes, version \in Versions \cup {<<>>} :
       CandidateProbed(i, outcome, version)
  \/ \E outcome \in ExecOutcomes : InstalledProbed(outcome)
  \/ \E choice \in {InstallNow, NotNow, Undefined} : PromptAnswered(choice)
  \/ \E outcome \in ExecOutcomes : InstallEnded(outcome)
  \/ \E editor \in Docs \cup {NoEditor} : ShowVirtualC(editor)
  \/ \E d \in Docs :
       \E result \in Answers(Request(d, text[d])), tempPath \in {Undefined, TempPath},
          shown \in BOOLEAN :
         ShowAnswered(result, tempPath, shown)
  \/ ReinstallServer
  \/ \E outcome \in ExecOutcomes, version \in Versions \cup {<<>>} :
       ReinstallProbed(outcome, version)
  \/ \E outcome \in ExecOutcomes : ReinstallEnded(outcome)
  \/ Deactivate

SpecCommands == InitCommands /\ [][NextCommands]_vars

----------------------------------------------------------------------------
(* Properties of the server discovery *)

StdioArgs == <<"--stdio">>
ModuleArgs == <<"-m", "mclsp", "--stdio">>

\* A string of spaces only (the empty string included)
Blank(str) == \A i \in 1..Len(str) : str[i] = " "

\* A string without the spaces at its two ends
Stripped(str) ==
  IF Blank(str) THEN <<>>
  ELSE LET inked == {i \in 1..Len(str) : str[i] # " "}
           first == CHOOSE i \in inked : \A j \in inked : i <= j
           last == CHOOSE i \in inked : \A j \in inked : j <= i
       IN SubSeq(str, first, last)

NothingRun == probes = <<>> /\ promptChoice = None /\ installs = <<>>
MclspFound == probes # <<>> /\ CommandExists(probes[1].outcome)
OnlyMclspProbed == Len(probes) = 1 /\ promptChoice = None /\ installs = <<>>

\* C6 as claimed: once resolution has started, a non-empty serverPath is the
\* command and nothing is probed; else a set MCLSP_SERVER is the command and
\* nothing is probed; else, mclsp being found on PATH, the bare command is the
\* result and nothing but mclsp is probed.
C6_AnyNonEmptySetting ==
  pc # "idle" =>
    /\ ~Falsy(env.serverPath) =>
         server = Command(env.serverPath, StdioArgs) /\ NothingRun
    /\ (Falsy(env.serverPath) /\ env.MCLSP_SERVER # Undefined) =>
         server = Command(env.MCLSP_SERVER, StdioArgs) /\ NothingRun
    /\ (Falsy(env.serverPath) /\ env.MCLSP_SERVER = Undefined /\ MclspFound) =>
         server = Command(<<"mclsp">>, StdioArgs) /\ OnlyMclspProbed

\* C6, amended: the same with "non-empty" read as "not blank" for serverPath,
\* whose value is used without the spaces at its ends, and with "set" read as
\* "set to a non-empty value" for MCLSP_SERVER.
C6_FirstBranchWins ==
  LET path == IF env.serverPath = Undefined THEN <<>> ELSE env.serverPath
      envSet == env.MCLSP_SERVER # Undefined /\ env.MCLSP_SERVER # <<>>
  IN pc # "idle" =>
       /\ ~Blank(path) => server = Command(Stripped(path), StdioArgs) /\ NothingRun
       /\ (Blank(path) /\ envSet) =>
            server = Command(env.MCLSP_SERVER, StdioArgs) /\ NothingRun
       /\ (Blank(path) /\ ~envSet /\ MclspFound) =>
            server = Command(<<"mclsp">>, StdioArgs) /\ OnlyMclspProbed

\* A serverPath padded with spaces won over a set MCLSP_SERVER, and the
\* session was created with the path without the padding.
C6_Witness ==
  /\ pc = "activated"
  /\ env.serverPath = <<" ", "/opt/mclsp", " ">>
  /\ env.MCLSP_SERVER = <<"/env/mclsp">>
  /\ server.command = <<"/opt/mclsp">>
  /\ client = LanguageClient

\* C7: any answer to the install prompt other than 'Install now' (dismissal
\* included) ends resolution with no command, no install run and the stored
\* interpreter path as it was; 'Install now' followed by a successful install
\* ends it with <interpreter> -m mclsp --stdio and that interpreter stored.
C7_InstallConsent ==
  /\ (promptChoice # None /\ promptChoice # InstallNow) =>
       /\ pc = "no server"
       /\ server = Nothing
       /\ client = Undefined
       /\ installs = <<>>
       /\ resolvedPython = env.resolvedPython
  /\ (promptChoice = InstallNow /\ installs = <<"ok">>) =>
       /\ pc = "activated"
       /\ python # Undefined
       /\ server = Command(python, ModuleArgs)
       /\ resolvedPython = python

\* The install was accepted and succeeded, and the stored interpreter path
\* changed from the one of an earlier session to the one found now.
C7_Witness ==
  /\ promptChoice = InstallNow
  /\ installs = <<"ok">>
  /\ env.resolvedPython = <<"/old/python">>
  /\ resolvedPython = <<"python3">>

\* ghost: the runs of `candidate --version` that reported a version
Reported(i) == probes[i].kind = "version" /\ probes[i].version # <<>>

\* Every candidate run was decided by the floor `meeting`, the set of the
\* versions that meet it: accepted (it is the interpreter returned and no later
\* candidate was run) when its version is in the set, rejected otherwise; and
\* the candidates are run in their order.
FloorDecides(meeting) ==
  /\ \A i \in 1..Len(probes) :
       Reported(i) =>
         IF probes[i].version \in meeting
           THEN /\ python = probes[i].cmd
                /\ \A j \in (i + 1)..Len(probes) : probes[j].kind # "version"
           ELSE python # probes[i].cmd
  /\ LET runs == SelectSeq(probes, LAMBDA p : p.kind = "version")
     IN \A k \in 1..Len(runs) : k <= Len(Candidates) /\ runs[k].cmd = Candidates[k]

AtLeast3_10 == {v \in Versions : v[1] > 3 \/ (v[1] = 3 /\ v[2] >= 10)}
Minor10OfPython3 == {v \in Versions : v[1] = 3 /\ v[2] >= 10}

\* C8 as claimed: a PATH candidate reporting a version below 3.10 is rejected
\* and the next one is tried; one reporting 3.10 or above is accepted.
C8_AnyVersionAtLeastFloor == FloorDecides(AtLeast3_10)

\* C8, amended: a PATH candidate is accepted when it reports a version 3.x
\* with x >= 10, and rejected when it reports any other version (below 3.10,
\* or of another major version).
C8_VersionFloor == FloorDecides(Minor10OfPython3)

\* python3 reported 4.0 and was passed over, python reported 3.10 and was returned.
C8_Witness ==
  /\ python = <<"python">>
  /\ \E i \in 1..Len(probes) :
       /\ probes[i] = Probe(<<"python3">>, "version", "ok", <<4, 0>>)
       /\ i < Len(probes)
       /\ probes[i + 1] = Probe(<<"python">>, "version", "ok", <<3, 10>>)

\* ghost: the existence probe run i was taken as "present": the resolver
\* went on with the probed command (as the server command for mclsp, as the
\* interpreter otherwise) and ran no other existence or version probe after it.
TakenAsPresent(i) ==
  /\ IF probes[i].cmd = <<"mclsp">>
       THEN server = Command(<<"mclsp">>, StdioArgs) /\ Len(probes) = i
       ELSE python = probes[i].cmd
  /\ \A j \in (i + 1)..Len(probes) : probes[j].kind = "module"

\* Every existence probe run so far was decided by the set `absent` of the
\* outcomes that count as "not present".
ExistenceDecides(absent) ==
  \A i \in 1..Len(probes) :
    probes[i].kind = "exists" => (TakenAsPresent(i) <=> probes[i].outcome \notin absent)

C14_InstallFailureAborts ==
  [][(installs' # installs /\ installs'[Len(installs')] # "ok")
     => /\ promptChoice = InstallNow
        /\ messages' = messages + 1
        /\ pc' = "no server"
        /\ server' = Nothing
        /\ client' = Undefined
        /\ resolvedPython' = env.resolvedPython
        /\ probes' = probes
        /\ Len(installs') = 1]_vars

\* The install ran into its timeout: resolution ended without a server, and
\* the interpreter path stored by an earlier session is still the stored one.
C14_Witness ==
  /\ promptChoice = InstallNow
  /\ installs = <<"timeout">>
  /\ pc = "no server"
  /\ env.resolvedPython = <<"/old/python">>
  /\ resolvedPython = <<"/old/python">>

\* ghost: the versions printed by the probe runs of the interpreter that
\* findPython returned
VersionsOfPython ==
  {probes[i].version : i \in {j \in 1..Len(probes) :
     probes[j].cmd = python /\ probes[j].kind \in {"exists", "version"}}}

\* C19: the interpreter findPython returned is of version 3.10 or higher,
\* whichever step found it, and so is every interpreter the resolver stores
\* or launches the server with.
C19_PythonMeetsFloor ==
  /\ python # Undefined => VersionsOfPython \subseteq AtLeast3_10
  /\ resolvedPython # env.resolvedPython =>
       resolvedPython = python /\ VersionsOfPython \subseteq AtLeast3_10
  /\ (server # Nothing /\ server.args = ModuleArgs) =>
       server.command = python /\ VersionsOfPython \subseteq AtLeast3_10

----------------------------------------------------------------------------
(* Properties of activation, of the commands and of deactivate *)

\* C12: once resolveMclspServer has returned null, activate has ended without
\* an exception, there is no client, nothing was started or stopped, no
\* request is in flight or awaited, the cache is as it was created, exactly
\* the content provider and the two commands are registered, and both
\* commands can be invoked; and this stays so until the extension is
\* deactivated.
C12_FailedResolutionIsInert ==
  /\ [](pc = "no server" =>
         /\ server = Nothing
         /\ client = Undefined
         /\ ~ready /\ ~stopped /\ ~uncaught
         /\ inflight = EmptyBag
         /\ (pending # Nothing => pending.name # "showVirtualC")
         /\ cache = EmptyMap
         /\ subscriptions =
              {"mccode-c", "mccode.showVirtualC", "mccode.reinstallServer"}
         /\ (pending = Nothing /\ Invocations < MaxCommands) =>
              (ENABLED ShowVirtualC(NoEditor)) /\ (ENABLED ReinstallServer))
  /\ [][pc = "no server" => pc' \in {"no server", "deactivated"}]_vars

\* Resolution failed (python3 and python are both missing), and the show
\* command, invoked after that, ended with its error message.
C12_Witness ==
  /\ pc = "no server"
  /\ Len(probes) >= 2
  /\ probes[Len(probes)].cmd = <<"python">>
  /\ outcomes = <<[name |-> "showVirtualC", session |-> FALSE, answer |-> Nothing,
                   message |-> "error", opened |-> "nothing"]>>

\* C16: an invocation of the show command that fails because there is no
\* client, because the request throws, or because the answer has no content
\* or an empty one, shows one error message and opens no document, and no
\* exception escapes; and every invocation that ends before it tries to open
\* a document shows a message.
C16_ShowFailureIsShown ==
  [][(outcomes' # outcomes /\ outcomes'[Len(outcomes')].name = "showVirtualC") =>
       LET o == outcomes'[Len(outcomes')]
           noAnswer == o.answer = Nothing
           failed == \/ ~o.session
                     \/ /\ ~noAnswer
                        /\ \/ o.answer.threw
                           \/ o.answer.null
                           \/ o.answer.content \in {Undefined, EmptyString}
       IN /\ failed =>
               /\ o.message = "error"
               /\ messages' = messages + 1
               /\ o.opened = "nothing"
               /\ uncaught' = uncaught
          /\ o.opened = "nothing" =>
               (o.message # "none" /\ messages' = messages + 1)
    ]_vars

\* With a client, the server answered the command's request with an empty
\* content: the command ended with an error message and opened nothing.
C16_Witness ==
  /\ client = LanguageClient
  /\ Len(outcomes) = 1
  /\ outcomes[1].name = "showVirtualC"
  /\ outcomes[1].answer # Nothing
  /\ ~outcomes[1].answer.threw /\ ~outcomes[1].answer.null
  /\ outcomes[1].answer.content = EmptyString
  /\ outcomes[1].message = "error"
  /\ messages >= 1

\* C18: the client is created at most once, by the step in which
\* resolveMclspServer returns a command, and never replaced; client.stop() is
\* called by deactivate only, on an existing client; and no step of a command
\* creates, replaces, starts or stops the client.
C18_ClientIsSingleResource ==
  /\ [][client' # client =>
          /\ client = Undefined /\ server = Nothing
          /\ server' # Nothing
          /\ pc' = "activated"
          /\ ~stopped']_vars
  /\ [][stopped' # stopped =>
          /\ ~stopped
          /\ client # Undefined /\ client' = client
          /\ pc # "deactivated" /\ pc' = "deactivated"]_vars
  /\ [][(outcomes' # outcomes \/ pending' # pending) =>
          /\ client' = client
          /\ stopped' = stopped
          /\ ready' = ready]_vars

\* A client was created, the reinstall command ran to its end, and
\* deactivate then stopped the client.
C18_Witness ==
  /\ pc = "deactivated"
  /\ stopped
  /\ client = LanguageClient
  /\ Len(outcomes) = 1
  /\ outcomes[1].name = "reinstallServer"
  /\ outcomes[1].session

=============================================================================
